---- MODULE Spec2Model ----
(***************************************************************************)
(* Subscription lifecycle of api-transcript: the order store, the users'   *)
(* entitlement, the payment gateway's preapprovals, and the handlers of    *)
(* subscription.service.js (createCheckoutForPlan, processWebhook,         *)
(* checkSubscriptionOrderStatus, getUserActivePlan) and of                 *)
(* admin.service.js (assignPlanToUser).  Every handler is an async         *)
(* function: a process runs it one await at a time.  Spec runs one request *)
(* at a time; RaceSpec lets two reconciliations of one order interleave at *)
(* their store and gateway calls.  Dates are counted in days.              *)
(***************************************************************************)
EXTENDS Integers, FiniteSets, Sequences, TLC

VARIABLES
  users,         \* User rows, by id
  orders,        \* SubscriptionOrder rows; the id of a row is its index
  preapprovals,  \* the gateway's preapproval records; the id is the index
  isConfigured,  \* mercadopago.isConfigured
  now,           \* the clock read by new Date()
  procs          \* the handler each process runs, its position and locals

vars == <<users, orders, preapprovals, isConfigured, now, procs>>

\* ---------------------------------------------------------------- bounds
MaxNow == 1
MaxDate == 3
MaxOrders == 1
MaxUsage == 1

\* ------------------------------------------------------------------ data
Procs == {"p1", "p2"}
UserIds == {"u1"}
PlanIds == {"P", "Q"}
NoId == "none"
NoDate == -1
NoOrder == 0

\* the ids a caller may pass: those of the rows, and one that names no row
UserInputs == UserIds \cup {"u9"}
PlanInputs == PlanIds \cup {"Z"}

\* Plan.durationInDays of the two catalogue rows
durationInDays == [pl \in PlanIds |-> IF pl = "P" THEN 1 ELSE 2]

\* the statuses the gateway reports for a preapproval ("other": any status the
\* code does not name); the payer and the provider change it at any time, so
\* every fetch may find any of them
ProviderStatuses == {"pending", "authorized", "paused", "cancelled", "other"}

NoBody == [status |-> "none", external_reference |-> NoOrder]
NoUser == [id |-> NoId, planId |-> NoId, planExpiresAt |-> NoDate]
NoOrderRow == [id |-> NoOrder, status |-> "none", mercadopagoPreferenceId |-> 0]
NoData == [type |-> "none", id |-> 0, status |-> "none"]
NoPre == [orders |-> <<>>, users |-> <<>>, delivered |-> NoData]
NoWrite == [upd |-> "none", date |-> NoDate]

\* the webhook bodies: type; data.id (0: the body carries no data object);
\* and a status field of the body, which a sender may set to anything
Notifications ==
  [type : {"preapproval", "payment"}, id : 0..MaxOrders,
   status : {"authorized"}]

\* the error messages the handlers throw
MsgUnavailable == "O servico de pagamento nao esta disponivel no momento."
MsgGateway == "Erro ao comunicar com o servico de pagamento."
MsgUserNotFound == "Usuario nao encontrado."
MsgPlanNotFound == "Plano nao encontrado."
MsgOrderNotFound == "Pedido de assinatura nao encontrado."
MsgStore == "store error"

\* the catch of createCheckoutForPlan: an error that carries no provider
\* response is rethrown with the gateway message
CheckoutError(message) == MsgGateway

\* the row SubscriptionOrder.create inserts
NewOrder(userId, planId) ==
  [userId |-> userId, planId |-> planId, status |-> "pending",
   mercadopagoPreferenceId |-> 0, mercadopagoPaymentId |-> 0,
   mercadopagoPaymentDetails |-> NoBody]

\* ------------------------------------------------------ pure computations

\* the table without its paused entry
WebhookNewStatusNoPaused(providerStatus) ==
  IF providerStatus = "authorized" THEN "approved"
  ELSE IF providerStatus = "cancelled" THEN "cancelled"
  ELSE "pending"

\* processWebhook's transition table
WebhookNewStatus(providerStatus) ==
  IF providerStatus = "authorized" THEN "approved"
  ELSE IF providerStatus = "cancelled" \/ providerStatus = "paused" THEN "cancelled"
  ELSE "pending"

\* checkSubscriptionOrderStatus's statusAtualizado
PollNewStatus(current, providerStatus) ==
  LET s1 == IF providerStatus = "authorized" THEN "approved" ELSE current
  IN  IF providerStatus = "cancelled" \/ providerStatus = "paused"
      THEN "cancelled" ELSE s1

\* the newExpirationDate that always anchors at t
NewExpirationDateFromNow(planExpiresAt, t, days) == t + days

\* the newExpirationDate that anchors at the user's expiry whenever there is one
NewExpirationDateFromExpiry(planExpiresAt, t, days) ==
  (IF planExpiresAt # NoDate THEN planExpiresAt ELSE t) + days

\* newExpirationDate of processWebhook and checkSubscriptionOrderStatus:
\* anchored at the user's expiry when that is after t, else at t
NewExpirationDate(planExpiresAt, t, days) ==
  (IF planExpiresAt # NoDate /\ planExpiresAt > t THEN planExpiresAt ELSE t) + days

\* newExpirationDate of assignPlanToUser: the expiry anchors only for the same plan
AssignExpirationDate(user, planId, t, days) ==
  (IF user.planId = planId /\ user.planExpiresAt # NoDate /\ user.planExpiresAt > t
   THEN user.planExpiresAt ELSE t) + days

\* the order update that is skipped when the status does not change
WebhookOrderUpdateGated(row, newStatus, preapprovalId, body) ==
  IF newStatus = row.status THEN row
  ELSE [row EXCEPT !.status = newStatus,
                   !.mercadopagoPaymentId = preapprovalId,
                   !.mercadopagoPaymentDetails = body]

\* subscriptionOrder.update of processWebhook
WebhookOrderUpdate(row, newStatus, preapprovalId, body) ==
  [row EXCEPT !.status = newStatus,
              !.mercadopagoPaymentId = preapprovalId,
              !.mercadopagoPaymentDetails = body]

\* subscriptionOrder.update of checkSubscriptionOrderStatus
PollOrderUpdate(row, newStatus, body) ==
  [row EXCEPT !.status = newStatus, !.mercadopagoPaymentDetails = body]

\* user.update of processWebhook on approval (and of assignPlanToUser)
GrantUpdate(row, planId, expires) ==
  [row EXCEPT !.planId = planId, !.planExpiresAt = expires,
              !.transcriptionsUsedCount = 0, !.transcriptionMinutesUsed = 0,
              !.agentUsesUsed = 0, !.assistantUsesUsed = 0]

\* user.update of checkSubscriptionOrderStatus on approval
PollGrantUpdate(row, planId, expires) ==
  [row EXCEPT !.planId = planId, !.planExpiresAt = expires]

\* user.update of processWebhook on cancellation
RevokeUpdate(row, t) ==
  [row EXCEPT !.planId = NoId, !.planExpiresAt = t]

\* user.update of assignPlanToUser with no plan, and of getUserActivePlan
ClearUpdate(row) ==
  [row EXCEPT !.planId = NoId, !.planExpiresAt = NoDate]

\* what processWebhook writes to the user after the order: the grant on
\* approval, the revocation on cancellation, nothing otherwise; t is new Date()
WebhookEntitlement(newStatus, user, plan, t) ==
  IF newStatus = "approved" /\ user # NoUser /\ plan # NoId
  THEN [upd |-> "grant",
        date |-> NewExpirationDate(user.planExpiresAt, t, durationInDays[plan])]
  ELSE IF newStatus = "cancelled" /\ user # NoUser
  THEN [upd |-> "revoke", date |-> t]
  ELSE NoWrite

\* what checkSubscriptionOrderStatus writes to the user after the order: the
\* grant on approval, nothing otherwise
PollEntitlement(newStatus, user, plan, t) ==
  IF newStatus = "approved" /\ user # NoUser /\ plan # NoId
  THEN [upd |-> "pollGrant",
        date |-> NewExpirationDate(user.planExpiresAt, t, durationInDays[plan])]
  ELSE NoWrite

\* the write a handler has prepared for its user row, applied to the stored row
ApplyUserUpdate(row, upd, planId, date) ==
  CASE upd = "grant"     -> GrantUpdate(row, planId, date)
    [] upd = "pollGrant" -> PollGrantUpdate(row, planId, date)
    [] upd = "revoke"    -> RevokeUpdate(row, date)
    [] upd = "clear"     -> ClearUpdate(row)
    [] OTHER             -> row

\* --------------------------------------------------------------- processes

Idle ==
  [kind |-> "idle", pc |-> "idle", data |-> NoData, orderId |-> NoOrder,
   userId |-> NoId, planId |-> NoId,
   body |-> NoBody, subscriptionOrder |-> NoOrderRow, user |-> NoUser,
   plan |-> NoId, newStatus |-> "none", upd |-> "none",
   newExpirationDate |-> NoDate,
   calls |-> 0, effect |-> "none", failed |-> FALSE,
   result |-> "none", error |-> "none", ret |-> "none", pre |-> NoPre]

\* a process takes a request when it runs none
Ready(p) == procs[p].pc \in {"idle", "done"}

\* the notification of the run a process has just finished, when that run was
\* a processWebhook that found the provider status authorized and granted the
\* plan; NoData otherwise
Delivered(r) ==
  IF r.kind = "webhook" /\ r.pc = "done" /\ r.effect = "grant"
     /\ r.body.status = "authorized"
  THEN r.data ELSE NoData

\* the store as a handler finds it when it is called, and what the process
\* had just delivered
Snapshot(p) ==
  [orders |-> orders, users |-> users, delivered |-> Delivered(procs[p])]

Start(p, kind, pc) ==
  [Idle EXCEPT !.kind = kind, !.pc = pc, !.pre = Snapshot(p)]

\* the handler returns normally
Returns(r, ret) == [r EXCEPT !.pc = "done", !.result = "ok", !.ret = ret]

\* the handler rejects with an error
Raises(r, error) ==
  [r EXCEPT !.pc = "done", !.result = "raised", !.error = error, !.failed = TRUE]

\* a catch that rethrows
Rethrows(r, ret) == Raises(r, MsgStore)

\* an exception is caught and logged, and the handler returns
Swallows(r, ret) ==
  [r EXCEPT !.pc = "done", !.result = "ok", !.ret = ret, !.failed = TRUE]

\* findByPk with the user and plan associations
LoadOrder(id) ==
  [id |-> id, status |-> orders[id].status,
   mercadopagoPreferenceId |-> orders[id].mercadopagoPreferenceId]

\* the fields of a User row that the handlers read from a loaded instance
Loaded(id, row) ==
  [id |-> id, planId |-> row.planId, planExpiresAt |-> row.planExpiresAt]

LoadUser(id) == IF id \in UserIds THEN Loaded(id, users[id]) ELSE NoUser

OrderExists(id) == id \in DOMAIN orders

\* the record mercadopago.preapproval.get returns for an id it knows
Fetched(id, st) ==
  [status |-> st, external_reference |-> preapprovals[id].external_reference]

\* ----------------------------------------------------------- processWebhook

\* the call without the type test
ProcessWebhookCallAnyType(p, data) ==
  /\ Ready(p)
  /\ LET r == [Start(p, "webhook", "wGet") EXCEPT !.data = data]
     IN  procs' = [procs EXCEPT ![p] =
           IF data.id = 0 THEN Swallows(r, "none") ELSE r]
  /\ UNCHANGED <<users, orders, preapprovals, isConfigured, now>>

\* the call up to its first await: the type test and the read of data.id
ProcessWebhookCall(p, data) ==
  /\ Ready(p)
  /\ LET r == [Start(p, "webhook", "wGet") EXCEPT !.data = data]
     IN  procs' = [procs EXCEPT ![p] =
           IF data.type # "preapproval" THEN Returns(r, "none")
           ELSE IF data.id = 0 THEN Swallows(r, "none")
           ELSE r]
  /\ UNCHANGED <<users, orders, preapprovals, isConfigured, now>>

\* mercadopago.preapproval.get answers (or fails), then external_reference is read
WebhookGet(p, ok, st) ==
  /\ procs[p].pc = "wGet"
  /\ LET r  == [procs[p] EXCEPT !.calls = @ + 1]
         id == r.data.id
     IN  procs' = [procs EXCEPT ![p] =
           IF ~ok \/ id \notin DOMAIN preapprovals THEN Swallows(r, "none")
           ELSE LET body == Fetched(id, st)
                IN  IF body.external_reference = NoOrder
                    THEN Returns([r EXCEPT !.body = body], "none")
                    ELSE [r EXCEPT !.body = body, !.pc = "wFind"]]
  /\ UNCHANGED <<users, orders, preapprovals, isConfigured, now>>

\* WebhookFind that throws when the order is missing
WebhookFindThrows(p, ok) ==
  /\ procs[p].pc = "wFind"
  /\ LET r  == procs[p]
         id == r.body.external_reference
     IN  procs' = [procs EXCEPT ![p] =
           IF ~ok THEN Swallows(r, "none")
           ELSE IF ~OrderExists(id) THEN Raises(r, MsgOrderNotFound)
           ELSE [r EXCEPT !.subscriptionOrder = LoadOrder(id),
                          !.user = LoadUser(orders[id].userId),
                          !.plan = orders[id].planId,
                          !.newStatus = WebhookNewStatus(r.body.status),
                          !.pc = "wUpdateOrder"]]
  /\ UNCHANGED <<users, orders, preapprovals, isConfigured, now>>

\* SubscriptionOrder.findByPk answers, then newStatus is computed
WebhookFind(p, ok) ==
  /\ procs[p].pc = "wFind"
  /\ LET r  == procs[p]
         id == r.body.external_reference
     IN  procs' = [procs EXCEPT ![p] =
           IF ~ok THEN Swallows(r, "none")
           ELSE IF ~OrderExists(id) THEN Returns(r, "none")
           ELSE [r EXCEPT !.subscriptionOrder = LoadOrder(id),
                          !.user = LoadUser(orders[id].userId),
                          !.plan = orders[id].planId,
                          !.newStatus = WebhookNewStatus(r.body.status),
                          !.pc = "wUpdateOrder"]]
  /\ UNCHANGED <<users, orders, preapprovals, isConfigured, now>>

\* subscriptionOrder.update completes, then the user's write is prepared
WebhookUpdateOrder(p, ok) ==
  /\ procs[p].pc = "wUpdateOrder"
  /\ LET r  == procs[p]
         id == r.subscriptionOrder.id
     IN  IF ~ok
         THEN /\ procs' = [procs EXCEPT ![p] = Swallows(r, "none")]
              /\ UNCHANGED orders
         ELSE /\ orders' = [orders EXCEPT ![id] =
                   WebhookOrderUpdate(@, r.newStatus, r.data.id, r.body)]
              /\ LET w == WebhookEntitlement(r.newStatus, r.user, r.plan, now)
                 IN  procs' = [procs EXCEPT ![p] =
                       IF w.upd = "none" THEN Returns(r, "none")
                       ELSE [r EXCEPT !.upd = w.upd, !.newExpirationDate = w.date,
                                      !.pc = "wUpdateUser"]]
  /\ UNCHANGED <<users, preapprovals, isConfigured, now>>

\* user.update completes
WebhookUpdateUser(p, ok) ==
  /\ procs[p].pc = "wUpdateUser"
  /\ LET r == procs[p]
     IN  IF ~ok
         THEN /\ procs' = [procs EXCEPT ![p] = Swallows(r, "none")]
              /\ UNCHANGED users
         ELSE /\ r.newExpirationDate <= MaxDate
              /\ users' = [users EXCEPT ![r.user.id] =
                   ApplyUserUpdate(@, r.upd, r.plan, r.newExpirationDate)]
              /\ procs' = [procs EXCEPT ![p] =
                   Returns([r EXCEPT !.effect = r.upd], "none")]
  /\ UNCHANGED <<orders, preapprovals, isConfigured, now>>

\* --------------------------------------------- checkSubscriptionOrderStatus

\* the call: SubscriptionOrder.findByPk is awaited first
CheckStatusCall(p, orderId) ==
  /\ Ready(p)
  /\ procs' = [procs EXCEPT ![p] =
       [Start(p, "poll", "pFind") EXCEPT !.orderId = orderId]]
  /\ UNCHANGED <<users, orders, preapprovals, isConfigured, now>>

\* PollFind without the return of an approved order
PollFindNoShortcut(p, ok) ==
  /\ procs[p].pc = "pFind"
  /\ LET r  == procs[p]
         id == r.orderId
     IN  procs' = [procs EXCEPT ![p] =
           IF ~ok THEN Raises(r, MsgStore)
           ELSE IF ~OrderExists(id) THEN Raises(r, MsgOrderNotFound)
           ELSE LET o  == LoadOrder(id)
                    r1 == [r EXCEPT !.subscriptionOrder = o,
                                    !.user = LoadUser(orders[id].userId),
                                    !.plan = orders[id].planId]
                IN  IF o.mercadopagoPreferenceId = 0 THEN Returns(r1, o.status)
                    ELSE [r1 EXCEPT !.pc = "pGet"]]
  /\ UNCHANGED <<users, orders, preapprovals, isConfigured, now>>

\* findByPk answers: a missing order raises, an approved one is returned as it is
PollFind(p, ok) ==
  /\ procs[p].pc = "pFind"
  /\ LET r  == procs[p]
         id == r.orderId
     IN  procs' = [procs EXCEPT ![p] =
           IF ~ok THEN Raises(r, MsgStore)
           ELSE IF ~OrderExists(id) THEN Raises(r, MsgOrderNotFound)
           ELSE LET o  == LoadOrder(id)
                    r1 == [r EXCEPT !.subscriptionOrder = o,
                                    !.user = LoadUser(orders[id].userId),
                                    !.plan = orders[id].planId]
                IN  IF o.status = "approved" THEN Returns(r1, o.status)
                    ELSE IF o.mercadopagoPreferenceId = 0 THEN Returns(r1, o.status)
                    ELSE [r1 EXCEPT !.pc = "pGet"]]
  /\ UNCHANGED <<users, orders, preapprovals, isConfigured, now>>

\* PollGet whose gateway failure is rethrown to the caller
PollGetThrows(p, ok, st) ==
  /\ procs[p].pc = "pGet"
  /\ LET r   == [procs[p] EXCEPT !.calls = @ + 1]
         cur == r.subscriptionOrder.status
         id  == r.subscriptionOrder.mercadopagoPreferenceId
     IN  procs' = [procs EXCEPT ![p] =
           IF ~ok \/ id \notin DOMAIN preapprovals THEN Raises(r, MsgGateway)
           ELSE LET body == Fetched(id, st)
                    ns   == PollNewStatus(cur, body.status)
                    r1   == [r EXCEPT !.body = body]
                IN  IF ns = cur THEN Returns(r1, cur)
                    ELSE [r1 EXCEPT !.newStatus = ns, !.pc = "pUpdateOrder"]]
  /\ UNCHANGED <<users, orders, preapprovals, isConfigured, now>>

\* mercadopago.preapproval.get answers (or fails), then statusAtualizado is computed
PollGet(p, ok, st) ==
  /\ procs[p].pc = "pGet"
  /\ LET r   == [procs[p] EXCEPT !.calls = @ + 1]
         cur == r.subscriptionOrder.status
         id  == r.subscriptionOrder.mercadopagoPreferenceId
     IN  procs' = [procs EXCEPT ![p] =
           IF ~ok \/ id \notin DOMAIN preapprovals THEN Swallows(r, cur)
           ELSE LET body == Fetched(id, st)
                    ns   == PollNewStatus(cur, body.status)
                    r1   == [r EXCEPT !.body = body]
                IN  IF ns = cur THEN Returns(r1, cur)
                    ELSE [r1 EXCEPT !.newStatus = ns, !.pc = "pUpdateOrder"]]
  /\ UNCHANGED <<users, orders, preapprovals, isConfigured, now>>

\* subscriptionOrder.update completes; on approval the user's write is prepared.
\* A failed update leaves the new status on the in-memory order that is returned.
PollUpdateOrder(p, ok) ==
  /\ procs[p].pc = "pUpdateOrder"
  /\ LET r  == procs[p]
         id == r.subscriptionOrder.id
     IN  IF ~ok
         THEN /\ procs' = [procs EXCEPT ![p] = Swallows(r, r.newStatus)]
              /\ UNCHANGED orders
         ELSE /\ orders' = [orders EXCEPT ![id] =
                   PollOrderUpdate(@, r.newStatus, r.body)]
              /\ LET w == PollEntitlement(r.newStatus, r.user, r.plan, now)
                 IN  procs' = [procs EXCEPT ![p] =
                       IF w.upd = "none" THEN [r EXCEPT !.pc = "pRefetch"]
                       ELSE [r EXCEPT !.upd = w.upd, !.newExpirationDate = w.date,
                                      !.pc = "pUpdateUser"]]
  /\ UNCHANGED <<users, preapprovals, isConfigured, now>>

\* user.update completes
PollUpdateUser(p, ok) ==
  /\ procs[p].pc = "pUpdateUser"
  /\ LET r == procs[p]
     IN  IF ~ok
         THEN /\ procs' = [procs EXCEPT ![p] = Swallows(r, r.newStatus)]
              /\ UNCHANGED users
         ELSE /\ r.newExpirationDate <= MaxDate
              /\ users' = [users EXCEPT ![r.user.id] =
                   ApplyUserUpdate(@, r.upd, r.plan, r.newExpirationDate)]
              /\ procs' = [procs EXCEPT ![p] =
                   [r EXCEPT !.effect = r.upd, !.pc = "pRefetch"]]
  /\ UNCHANGED <<orders, preapprovals, isConfigured, now>>

\* the closing SubscriptionOrder.findByPk, whose row is returned
PollRefetch(p, ok) ==
  /\ procs[p].pc = "pRefetch"
  /\ LET r == procs[p]
     IN  procs' = [procs EXCEPT ![p] =
           IF ~ok THEN Swallows(r, r.newStatus)
           ELSE Returns(r, orders[r.subscriptionOrder.id].status)]
  /\ UNCHANGED <<users, orders, preapprovals, isConfigured, now>>

\* ---------------------------------------------------- createCheckoutForPlan

\* orders that exist or that a running checkout is about to create
OrdersClaimed ==
  Len(orders)
  + Cardinality({q \in Procs : procs[q].pc \in {"cFindUser", "cFindPlan", "cCreate"}})

\* the call: the configuration test, then User.findByPk is awaited
CreateCheckoutCall(p, userId, planId) ==
  /\ Ready(p)
  /\ OrdersClaimed < MaxOrders
  /\ LET r == [Start(p, "checkout", "cFindUser") EXCEPT
                 !.userId = userId, !.planId = planId]
     IN  procs' = [procs EXCEPT ![p] =
           IF ~isConfigured THEN Raises(r, MsgUnavailable) ELSE r]
  /\ UNCHANGED <<users, orders, preapprovals, isConfigured, now>>

\* User.findByPk answers; every error inside the try is rethrown by the catch
CheckoutFindUser(p, ok) ==
  /\ procs[p].pc = "cFindUser"
  /\ LET r == procs[p]
     IN  procs' = [procs EXCEPT ![p] =
           IF ~ok THEN Raises(r, CheckoutError(MsgStore))
           ELSE [r EXCEPT !.user = LoadUser(r.userId), !.pc = "cFindPlan"]]
  /\ UNCHANGED <<users, orders, preapprovals, isConfigured, now>>

\* Plan.findByPk answers, then both rows are tested
CheckoutFindPlan(p, ok) ==
  /\ procs[p].pc = "cFindPlan"
  /\ LET r == procs[p]
     IN  procs' = [procs EXCEPT ![p] =
           IF ~ok THEN Raises(r, CheckoutError(MsgStore))
           ELSE IF r.user = NoUser THEN Raises(r, CheckoutError(MsgUserNotFound))
           ELSE IF r.planId \notin PlanIds
                THEN Raises(r, CheckoutError(MsgPlanNotFound))
           ELSE [r EXCEPT !.plan = r.planId, !.pc = "cCreate"]]
  /\ UNCHANGED <<users, orders, preapprovals, isConfigured, now>>

\* SubscriptionOrder.create completes
CheckoutCreate(p, ok) ==
  /\ procs[p].pc = "cCreate"
  /\ LET r  == procs[p]
         id == Len(orders) + 1
     IN  IF ~ok
         THEN /\ procs' = [procs EXCEPT ![p] = Raises(r, CheckoutError(MsgStore))]
              /\ UNCHANGED orders
         ELSE /\ orders' = Append(orders, NewOrder(r.user.id, r.plan))
              /\ procs' = [procs EXCEPT ![p] =
                   [r EXCEPT !.orderId = id, !.pc = "cGateway"]]
  /\ UNCHANGED <<users, preapprovals, isConfigured, now>>

\* CheckoutGateway that removes the order it created when the gateway fails
CheckoutGatewayRollsBack(p, ok) ==
  /\ procs[p].pc = "cGateway"
  /\ LET r  == [procs[p] EXCEPT !.calls = @ + 1]
         id == Len(preapprovals) + 1
     IN  IF ~ok
         THEN /\ procs' = [procs EXCEPT ![p] = Raises(r, CheckoutError(MsgGateway))]
              /\ orders' = SubSeq(orders, 1, Len(orders) - 1)
              /\ UNCHANGED preapprovals
         ELSE /\ preapprovals' = Append(preapprovals,
                   [external_reference |-> r.orderId])
              /\ procs' = [procs EXCEPT ![p] =
                   [r EXCEPT !.body = [status |-> "pending",
                                       external_reference |-> r.orderId],
                             !.data.id = id, !.pc = "cUpdate"]]
              /\ UNCHANGED orders
  /\ UNCHANGED <<users, isConfigured, now>>

\* mercadopago.preapproval.create answers (or fails)
CheckoutGateway(p, ok) ==
  /\ procs[p].pc = "cGateway"
  /\ LET r  == [procs[p] EXCEPT !.calls = @ + 1]
         id == Len(preapprovals) + 1
     IN  IF ~ok
         THEN /\ procs' = [procs EXCEPT ![p] = Raises(r, CheckoutError(MsgGateway))]
              /\ UNCHANGED preapprovals
         ELSE /\ preapprovals' = Append(preapprovals,
                   [external_reference |-> r.orderId])
              /\ procs' = [procs EXCEPT ![p] =
                   [r EXCEPT !.body = [status |-> "pending",
                                       external_reference |-> r.orderId],
                             !.data.id = id, !.pc = "cUpdate"]]
  /\ UNCHANGED <<users, orders, isConfigured, now>>

\* subscriptionOrder.update stores the preapproval's id
CheckoutUpdate(p, ok) ==
  /\ procs[p].pc = "cUpdate"
  /\ LET r == procs[p]
     IN  IF ~ok
         THEN /\ procs' = [procs EXCEPT ![p] = Raises(r, CheckoutError(MsgStore))]
              /\ UNCHANGED orders
         ELSE /\ orders' = [orders EXCEPT
                   ![r.orderId].mercadopagoPreferenceId = r.data.id]
              /\ procs' = [procs EXCEPT ![p] = Returns(r, "checkout")]
  /\ UNCHANGED <<users, preapprovals, isConfigured, now>>

\* --------------------------------------------------------- assignPlanToUser

AssignPlanCall(p, userId, planId) ==
  /\ Ready(p)
  /\ procs' = [procs EXCEPT ![p] =
       [Start(p, "assign", "aFindUser") EXCEPT !.userId = userId, !.planId = planId]]
  /\ UNCHANGED <<users, orders, preapprovals, isConfigured, now>>

\* User.findByPk answers; with no planId the plan is removed
AssignFindUser(p, ok) ==
  /\ procs[p].pc = "aFindUser"
  /\ LET r == procs[p]
     IN  procs' = [procs EXCEPT ![p] =
           IF ~ok THEN Raises(r, MsgStore)
           ELSE IF r.userId \notin UserIds THEN Raises(r, MsgUserNotFound)
           ELSE IF r.planId = NoId
                THEN [r EXCEPT !.user = LoadUser(r.userId), !.upd = "clear",
                               !.pc = "aUpdate"]
           ELSE [r EXCEPT !.user = LoadUser(r.userId), !.pc = "aFindPlan"]]
  /\ UNCHANGED <<users, orders, preapprovals, isConfigured, now>>

\* Plan.findByPk answers, then newExpirationDate is computed
AssignFindPlan(p, ok) ==
  /\ procs[p].pc = "aFindPlan"
  /\ LET r == procs[p]
     IN  procs' = [procs EXCEPT ![p] =
           IF ~ok THEN Raises(r, MsgStore)
           ELSE IF r.planId \notin PlanIds THEN Raises(r, MsgPlanNotFound)
           ELSE [r EXCEPT !.plan = r.planId, !.upd = "grant", !.pc = "aUpdate",
                   !.newExpirationDate =
                      AssignExpirationDate(r.user, r.planId, now,
                                           durationInDays[r.planId])]]
  /\ UNCHANGED <<users, orders, preapprovals, isConfigured, now>>

\* user.update completes
AssignUpdate(p, ok) ==
  /\ procs[p].pc = "aUpdate"
  /\ LET r == procs[p]
     IN  IF ~ok
         THEN /\ procs' = [procs EXCEPT ![p] = Raises(r, MsgStore)]
              /\ UNCHANGED users
         ELSE /\ r.newExpirationDate <= MaxDate
              /\ users' = [users EXCEPT ![r.user.id] =
                   ApplyUserUpdate(@, r.upd, r.plan, r.newExpirationDate)]
              /\ procs' = [procs EXCEPT ![p] =
                   Returns([r EXCEPT !.effect = r.upd], "assigned")]
  /\ UNCHANGED <<orders, preapprovals, isConfigured, now>>

\* -------------------------------------------------------- getUserActivePlan

GetUserActivePlanCall(p, userId) ==
  /\ Ready(p)
  /\ procs' = [procs EXCEPT ![p] =
       [Start(p, "activePlan", "gFind") EXCEPT !.userId = userId]]
  /\ UNCHANGED <<users, orders, preapprovals, isConfigured, now>>

\* ActivePlanFind that still returns a plan whose planExpiresAt is the clock
ActivePlanFindInclusive(p, ok) ==
  /\ procs[p].pc = "gFind"
  /\ LET r == procs[p]
         u == LoadUser(r.userId)
     IN  procs' = [procs EXCEPT ![p] =
           IF ~ok THEN Raises(r, MsgStore)
           ELSE IF u = NoUser THEN Raises(r, MsgUserNotFound)
           ELSE IF u.planId \in PlanIds /\ u.planExpiresAt # NoDate
                   /\ u.planExpiresAt >= now
                THEN Returns([r EXCEPT !.user = u], u.planId)
           ELSE IF u.planId # NoId
                THEN [r EXCEPT !.user = u, !.upd = "clear", !.pc = "gUpdate"]
           ELSE Returns([r EXCEPT !.user = u], "null")]
  /\ UNCHANGED <<users, orders, preapprovals, isConfigured, now>>

\* User.findByPk with currentPlan answers; an unexpired plan is returned,
\* otherwise a planId that is still set is cleared
ActivePlanFind(p, ok) ==
  /\ procs[p].pc = "gFind"
  /\ LET r == procs[p]
         u == LoadUser(r.userId)
     IN  procs' = [procs EXCEPT ![p] =
           IF ~ok THEN Raises(r, MsgStore)
           ELSE IF u = NoUser THEN Raises(r, MsgUserNotFound)
           ELSE IF u.planId \in PlanIds /\ u.planExpiresAt # NoDate
                   /\ u.planExpiresAt > now
                THEN Returns([r EXCEPT !.user = u], u.planId)
           ELSE IF u.planId # NoId
                THEN [r EXCEPT !.user = u, !.upd = "clear", !.pc = "gUpdate"]
           ELSE Returns([r EXCEPT !.user = u], "null")]
  /\ UNCHANGED <<users, orders, preapprovals, isConfigured, now>>

\* user.update completes
ActivePlanUpdate(p, ok) ==
  /\ procs[p].pc = "gUpdate"
  /\ LET r == procs[p]
     IN  IF ~ok
         THEN /\ procs' = [procs EXCEPT ![p] = Raises(r, MsgStore)]
              /\ UNCHANGED users
         ELSE /\ users' = [users EXCEPT ![r.user.id] =
                   ApplyUserUpdate(@, r.upd, NoId, NoDate)]
              /\ procs' = [procs EXCEPT ![p] =
                   Returns([r EXCEPT !.effect = r.upd], "null")]
  /\ UNCHANGED <<orders, preapprovals, isConfigured, now>>

\* ------------------------------------------------------------- environment

\* a day passes
Tick ==
  /\ now < MaxNow
  /\ now' = now + 1
  /\ UNCHANGED <<users, orders, preapprovals, isConfigured, procs>>

\* ------------------------------------------------------------ specification

InitUser(c) ==
  [planId |-> NoId, planExpiresAt |-> NoDate,
   transcriptionsUsedCount |-> c, transcriptionMinutesUsed |-> c,
   agentUsesUsed |-> c, assistantUsesUsed |-> c]

Init ==
  /\ \E c \in {0, MaxUsage} : users = [u \in UserIds |-> InitUser(c)]
  /\ orders = <<>>
  /\ preapprovals = <<>>
  /\ isConfigured \in BOOLEAN
  /\ now = 0
  /\ procs = [p \in Procs |-> Idle]

\* a step of a reconciliation that process p runs
ReconcileStep(p) ==
  \/ \E ok \in BOOLEAN, st \in ProviderStatuses : WebhookGet(p, ok, st)
  \/ \E ok \in BOOLEAN : WebhookFind(p, ok)
  \/ \E ok \in BOOLEAN : WebhookUpdateOrder(p, ok)
  \/ \E ok \in BOOLEAN : WebhookUpdateUser(p, ok)
  \/ \E ok \in BOOLEAN : PollFind(p, ok)
  \/ \E ok \in BOOLEAN, st \in ProviderStatuses : PollGet(p, ok, st)
  \/ \E ok \in BOOLEAN : PollUpdateOrder(p, ok)
  \/ \E ok \in BOOLEAN : PollUpdateUser(p, ok)
  \/ \E ok \in BOOLEAN : PollRefetch(p, ok)

\* a step of a checkout that process p runs
CheckoutStep(p) ==
  \/ \E ok \in BOOLEAN : CheckoutFindUser(p, ok)
  \/ \E ok \in BOOLEAN : CheckoutFindPlan(p, ok)
  \/ \E ok \in BOOLEAN : CheckoutCreate(p, ok)
  \/ \E ok \in BOOLEAN : CheckoutGateway(p, ok)
  \/ \E ok \in BOOLEAN : CheckoutUpdate(p, ok)

\* a step of assignPlanToUser or getUserActivePlan that process p runs
PlanStep(p) ==
  \/ \E ok \in BOOLEAN : AssignFindUser(p, ok)
  \/ \E ok \in BOOLEAN : AssignFindPlan(p, ok)
  \/ \E ok \in BOOLEAN : AssignUpdate(p, ok)
  \/ \E ok \in BOOLEAN : ActivePlanFind(p, ok)
  \/ \E ok \in BOOLEAN : ActivePlanUpdate(p, ok)

\* one request at a time: every handler runs in process p1
Next ==
  \/ \E data \in Notifications : ProcessWebhookCall("p1", data)
  \/ \E o \in 1..MaxOrders : CheckStatusCall("p1", o)
  \/ \E u \in UserInputs, pl \in PlanInputs : CreateCheckoutCall("p1", u, pl)
  \/ \E u \in UserInputs, pl \in PlanInputs \cup {NoId} : AssignPlanCall("p1", u, pl)
  \/ \E u \in UserInputs : GetUserActivePlanCall("p1", u)
  \/ ReconcileStep("p1")
  \/ CheckoutStep("p1")
  \/ PlanStep("p1")
  \/ Tick

Spec == Init /\ [][Next]_vars

\* the external_reference of a preapproval that no checkout of this program
\* created: absent, or the id of an order that is not in the store
ForeignRefs == {NoOrder, MaxOrders + 1}

\* as Init, with a gateway account that may already hold such a preapproval
ForeignInit ==
  /\ \E c \in {0, MaxUsage} : users = [u \in UserIds |-> InitUser(c)]
  /\ orders = <<>>
  /\ preapprovals \in
       {<<>>} \cup {<<[external_reference |-> x]>> : x \in ForeignRefs}
  /\ isConfigured \in BOOLEAN
  /\ now = 0
  /\ procs = [p \in Procs |-> Idle]

ForeignSpec == ForeignInit /\ [][Next]_vars

\* the checkout of the one order RaceSpec reconciles
RaceCheckoutCall(p, userId, planId) ==
  /\ Len(orders) = 0
  /\ \A q \in Procs : Ready(q)
  /\ CreateCheckoutCall(p, userId, planId)

\* process p has not yet run a reconciliation (a webhook delivery or a poll),
\* and no checkout is running
Fresh(p) ==
  /\ procs[p].kind \notin {"webhook", "poll"}
  /\ \A q \in Procs : procs[q].kind = "checkout" => procs[q].pc = "done"

\* two requests at a time: after the checkout of one order, each process runs
\* one webhook delivery or one status poll, and the two interleave at every await
RaceNext ==
  \/ \E u \in UserIds, pl \in PlanIds : RaceCheckoutCall("p1", u, pl)
  \/ \E p \in Procs, data \in Notifications :
        Fresh(p) /\ ProcessWebhookCall(p, data)
  \/ \E p \in Procs, o \in 1..MaxOrders : Fresh(p) /\ CheckStatusCall(p, o)
  \/ \E p \in Procs : ReconcileStep(p)
  \/ CheckoutStep("p1")
  \/ Tick

RaceSpec == Init /\ [][RaceNext]_vars

\* a user who subscribes again: one order more than MaxOrders may be created
MaxResubscribeOrders == MaxOrders + 1

\* the notifications of the preapprovals of those orders
ResubscribeNotifications ==
  [type : {"preapproval"}, id : 1..MaxResubscribeOrders, status : {"authorized"}]

\* createCheckoutForPlan called while fewer than MaxResubscribeOrders orders exist
ResubscribeCheckoutCall(p, userId, planId) ==
  /\ Ready(p)
  /\ Len(orders) < MaxResubscribeOrders
  /\ LET r == [Start(p, "checkout", "cFindUser") EXCEPT
                 !.userId = userId, !.planId = planId]
     IN  procs' = [procs EXCEPT ![p] =
           IF ~isConfigured THEN Raises(r, MsgUnavailable) ELSE r]
  /\ UNCHANGED <<users, orders, preapprovals, isConfigured, now>>

\* one request at a time: checkouts of the same user and webhook deliveries
\* for their preapprovals
ResubscribeNext ==
  \/ \E u \in UserIds, pl \in PlanIds : ResubscribeCheckoutCall("p1", u, pl)
  \/ \E data \in ResubscribeNotifications : ProcessWebhookCall("p1", data)
  \/ \E ok \in BOOLEAN, st \in ProviderStatuses : WebhookGet("p1", ok, st)
  \/ \E ok \in BOOLEAN : WebhookFind("p1", ok)
  \/ \E ok \in BOOLEAN : WebhookUpdateOrder("p1", ok)
  \/ \E ok \in BOOLEAN : WebhookUpdateUser("p1", ok)
  \/ CheckoutStep("p1")
  \/ Tick

ResubscribeSpec == Init /\ [][ResubscribeNext]_vars

\* the order's status and the user's row after a processWebhook run that finds
\* the order and the user rows as given, fetches provider status st, reads the
\* clock at t and meets no failure
WebhookOutcome(orderRow, userRow, st, t) ==
  LET ns == WebhookNewStatus(st)
      w  == WebhookEntitlement(ns, Loaded(orderRow.userId, userRow),
                               orderRow.planId, t)
  IN  [status |-> ns,
       user |-> ApplyUserUpdate(userRow, w.upd, orderRow.planId, w.date)]

\* ------------------------------------------------------------------ claims

\* a finished run of handler kind in which no exception was thrown
Finished(r, kind) == r.kind = kind /\ r.pc = "done" /\ ~r.failed

\* process p's subscriptionOrder.update succeeds in this step
OrderUpdated(p) ==
  /\ procs[p].pc \in {"wUpdateOrder", "pUpdateOrder"}
  /\ procs'[p].pc # procs[p].pc
  /\ ~procs'[p].failed

\* process p's user.update of a webhook delivery or a poll succeeds in this step
UserUpdated(p) ==
  /\ procs[p].pc \in {"wUpdateUser", "pUpdateUser"}
  /\ procs'[p].effect = procs[p].upd

\* C1: a processWebhook run that delivers the notification the preceding run
\* delivered (that run found the provider status authorized and granted the
\* plan), and finds the status authorized again, leaves planExpiresAt as the
\* first delivery left it.
C1_SecondDeliveryKeepsExpiry ==
  \A p \in Procs :
    LET r == procs[p]
    IN  (Finished(r, "webhook") /\ r.body.status = "authorized"
         /\ r.user # NoUser /\ r.pre.delivered = r.data
         /\ orders[r.subscriptionOrder.id].mercadopagoPreferenceId = r.data.id)
        => users[r.user.id].planExpiresAt = r.pre.users[r.user.id].planExpiresAt

\* C2: when two reconciliations called for the same pending order both find the
\* provider status authorized and both finish, the user's planExpiresAt is one
\* plan duration after its value before them, or after a time t of the run
\* when that value was not in the future.
C2_RaceExtendsOnce ==
  LET r1 == procs["p1"]
      r2 == procs["p2"]
      o  == r1.subscriptionOrder.id
  IN  (/\ r1.pc = "done" /\ r2.pc = "done"
       /\ ~r1.failed /\ ~r2.failed
       /\ r1.kind \in {"webhook", "poll"} /\ r2.kind \in {"webhook", "poll"}
       /\ o # NoOrder /\ r2.subscriptionOrder.id = o
       /\ o \in DOMAIN r1.pre.orders /\ o \in DOMAIN r2.pre.orders
       /\ r1.pre.orders[o].status = "pending"
       /\ r2.pre.orders[o].status = "pending"
       /\ r1.body.status = "authorized" /\ r2.body.status = "authorized")
      => LET u  == orders[o].userId
             e0 == r1.pre.users[u].planExpiresAt
             d  == durationInDays[orders[o].planId]
         IN  \E t \in 0..now :
               users[u].planExpiresAt = (IF e0 > t THEN e0 ELSE t) + d

\* C3: no step takes an order that is approved or cancelled back to pending.
C3_TerminalNeverPending ==
  [][\A o \in DOMAIN orders :
       orders[o].status \in {"approved", "cancelled"}
         => orders'[o].status # "pending"]_vars

\* C4: a processWebhook run for an order that was approved or cancelled when
\* the notification arrived leaves the order's status and the user's planId and
\* planExpiresAt as they were.
C4_TerminalOrderUntouched ==
  \A p \in Procs :
    LET r == procs[p]
        o == r.subscriptionOrder.id
    IN  (r.kind = "webhook" /\ r.pc = "done" /\ o # NoOrder
         /\ r.pre.orders[o].status \in {"approved", "cancelled"})
        => /\ orders[o].status = r.pre.orders[o].status
           /\ users[orders[o].userId].planId
                = r.pre.users[orders[o].userId].planId
           /\ users[orders[o].userId].planExpiresAt
                = r.pre.users[orders[o].userId].planExpiresAt

\* C5: when processWebhook's order update succeeds on a pending order, the
\* order's status is decided by the provider status that was fetched:
\* authorized gives approved, cancelled and paused give cancelled, and any
\* other status leaves pending, whatever status the notification body carried.
C5_WebhookTable ==
  [][\A p \in Procs :
       LET o  == procs[p].subscriptionOrder.id
           st == procs[p].body.status
       IN  (procs[p].pc = "wUpdateOrder" /\ OrderUpdated(p)
            /\ orders[o].status = "pending")
           => /\ st = "authorized" => orders'[o].status = "approved"
              /\ st \in {"cancelled", "paused"} => orders'[o].status = "cancelled"
              /\ st \notin {"authorized", "cancelled", "paused"}
                   => orders'[o].status = "pending"]_vars

\* C5 happens: a delivery found a pending order, fetched the status paused
\* while its body said authorized, and the order is cancelled.
C5_Witness ==
  \E p \in Procs :
    LET r == procs[p]
        o == r.subscriptionOrder.id
    IN  /\ Finished(r, "webhook") /\ o # NoOrder
        /\ r.pre.orders[o].status = "pending"
        /\ r.data.status = "authorized" /\ r.body.status = "paused"
        /\ orders[o].status = "cancelled"

\* C6: a checkSubscriptionOrderStatus run that meets no failure leaves the
\* order's status and the user's planId and planExpiresAt as a processWebhook
\* run from the same rows would, for the provider status it fetched (for every
\* provider status when it fetched none) and a clock reading t of the run.
C6_PollMatchesWebhook ==
  \A p \in Procs :
    LET r == procs[p]
        o == r.subscriptionOrder.id
    IN  (Finished(r, "poll") /\ o # NoOrder
         /\ r.pre.orders[o].mercadopagoPreferenceId # 0)
        => LET u   == orders[o].userId
               sts == IF r.body = NoBody THEN ProviderStatuses
                      ELSE {r.body.status}
           IN  \A st \in sts : \E t \in 0..now :
                 LET w == WebhookOutcome(r.pre.orders[o], r.pre.users[u], st, t)
                 IN  /\ orders[o].status = w.status
                     /\ users[u].planId = w.user.planId
                     /\ users[u].planExpiresAt = w.user.planExpiresAt

\* C7: a checkSubscriptionOrderStatus run that finds a pending order, fetches
\* the provider status cancelled and meets no failure leaves the order
\* cancelled and the user with no planId and a planExpiresAt that is a time of
\* the run.
C7_PollCancelRevokes ==
  \A p \in Procs :
    LET r == procs[p]
        o == r.subscriptionOrder.id
    IN  (Finished(r, "poll") /\ o # NoOrder
         /\ r.pre.orders[o].status = "pending"
         /\ r.body.status = "cancelled")
        => /\ orders[o].status = "cancelled"
           /\ users[orders[o].userId].planId = NoId
           /\ users[orders[o].userId].planExpiresAt \in 0..now

\* C8: every grant that processWebhook or checkSubscriptionOrderStatus writes
\* leaves the user's four usage counters at zero.
C8_GrantZeroesCounters ==
  [][\A p \in Procs :
       (UserUpdated(p) /\ procs[p].upd \in {"grant", "pollGrant"})
       => LET row == users'[procs[p].user.id]
          IN  /\ row.transcriptionsUsedCount = 0
              /\ row.transcriptionMinutesUsed = 0
              /\ row.agentUsesUsed = 0
              /\ row.assistantUsesUsed = 0]_vars

\* C9: a grant for a user who holds another plan than the order's, with a
\* planExpiresAt in the future, sets planExpiresAt to a clock reading t of the
\* run plus the order's plan duration.
C9_OtherPlanAnchorsNow ==
  [][\A p \in Procs :
       LET u == procs[p].user.id
       IN  (/\ UserUpdated(p) /\ procs[p].upd \in {"grant", "pollGrant"}
            /\ users[u].planId \in PlanIds \ {procs[p].plan}
            /\ users[u].planExpiresAt > now)
           => \E t \in 0..now :
                users'[u].planExpiresAt = t + durationInDays[procs[p].plan]]_vars

\* C10: a grant for an order that was pending when the run began, for a user
\* who holds the order's plan with a planExpiresAt in the future, sets
\* planExpiresAt to the old planExpiresAt plus the plan's durationInDays.
C10_SamePlanExtends ==
  [][\A p \in Procs :
       LET r == procs[p]
           u == r.user.id
           o == r.subscriptionOrder.id
       IN  (/\ UserUpdated(p) /\ r.upd \in {"grant", "pollGrant"}
            /\ r.pre.orders[o].status = "pending"
            /\ users[u].planId = r.plan
            /\ users[u].planExpiresAt > now)
           => users'[u].planExpiresAt
                = users[u].planExpiresAt + durationInDays[r.plan]]_vars

\* C10 happens: a run has approved a pending order of the plan the user held
\* with an expiry in the future, and the expiry is one duration later.
C10_Witness ==
  \E p \in Procs :
    LET r == procs[p]
        u == r.user.id
        o == r.subscriptionOrder.id
    IN  /\ r.pc = "done" /\ r.effect \in {"grant", "pollGrant"}
        /\ r.kind \in {"webhook", "poll"}
        /\ r.pre.orders[o].status = "pending" /\ orders[o].status = "approved"
        /\ r.pre.users[u].planId = r.plan
        /\ r.pre.users[u].planExpiresAt > now
        /\ users[u].planExpiresAt
             = r.pre.users[u].planExpiresAt + durationInDays[r.plan]

\* process p reads the clock for a grant in this step: its order update
\* succeeds and the user's write it prepares is a grant
GrantPrepared(p) ==
  /\ procs[p].pc \in {"wUpdateOrder", "pUpdateOrder"}
  /\ procs'[p].pc \in {"wUpdateUser", "pUpdateUser"}
  /\ procs'[p].upd \in {"grant", "pollGrant"}

\* C11: a grant prepared for a user whose planExpiresAt is null or not after
\* the clock reading has newExpirationDate = that reading + the plan's
\* durationInDays, and that is the planExpiresAt the grant writes.
C11_ExpiredAnchorsNow ==
  [][\A p \in Procs :
       LET r == procs[p]
           u == r.user.id
       IN  /\ (/\ GrantPrepared(p)
               /\ \/ users[u].planExpiresAt = NoDate
                  \/ users[u].planExpiresAt <= now)
              => procs'[p].newExpirationDate = now + durationInDays[r.plan]
           /\ (UserUpdated(p) /\ r.upd \in {"grant", "pollGrant"})
              => users'[u].planExpiresAt = r.newExpirationDate]_vars

\* C11 happens: a run has granted a plan to a user whose planExpiresAt was a
\* date before the clock, and the new planExpiresAt is the clock plus the
\* duration, which is not the old date plus the duration.
C11_Witness ==
  \E p \in Procs :
    LET r == procs[p]
        u == r.user.id
    IN  /\ r.pc = "done" /\ r.kind \in {"webhook", "poll"}
        /\ r.effect \in {"grant", "pollGrant"}
        /\ r.pre.users[u].planExpiresAt # NoDate
        /\ r.pre.users[u].planExpiresAt < now
        /\ users[u].planExpiresAt = now + durationInDays[r.plan]
        /\ users[u].planExpiresAt
             # r.pre.users[u].planExpiresAt + durationInDays[r.plan]

C13_OtherTypeNoOp ==
  \A p \in Procs :
    LET r == procs[p]
    IN  (r.kind = "webhook" /\ r.data.type # "preapproval")
        => /\ r.pc = "done" /\ r.result = "ok"
           /\ r.calls = 0
           /\ orders = r.pre.orders
           /\ users = r.pre.users

\* C13 happens: a notification of another type that names the preapproval of
\* a pending order has been processed.
C13_Witness ==
  \E p \in Procs :
    LET r == procs[p]
    IN  /\ r.kind = "webhook" /\ r.pc = "done" /\ r.data.type = "payment"
        /\ r.data.id \in DOMAIN preapprovals
        /\ OrderExists(preapprovals[r.data.id].external_reference)
        /\ orders[preapprovals[r.data.id].external_reference].status = "pending"

\* C14: a processWebhook run that fetched a provider record whose
\* external_reference is absent or names no order of the store returns
\* normally and leaves every order row and every user row as it was.
C14_UnknownOrderNoOp ==
  \A p \in Procs :
    LET r == procs[p]
    IN  (/\ r.kind = "webhook" /\ r.pc = "done" /\ r.body # NoBody
         /\ ~OrderExists(r.body.external_reference))
        => /\ r.result = "ok"
           /\ orders = r.pre.orders
           /\ users = r.pre.users

\* C14 happens: a run fetched a record that names an order the store does not
\* have, looked the order up without a failure, and finished, with an order
\* and a user in the store.
C14_Witness ==
  \E p \in Procs :
    LET r == procs[p]
    IN  /\ Finished(r, "webhook") /\ r.body # NoBody
        /\ r.body.external_reference # NoOrder
        /\ ~OrderExists(r.body.external_reference)
        /\ Len(orders) > 0

\* C14 happens for a record without external_reference.
C14_WitnessAbsent ==
  \E p \in Procs :
    LET r == procs[p]
    IN  /\ Finished(r, "webhook") /\ r.body # NoBody
        /\ r.body.external_reference = NoOrder
        /\ Len(orders) > 0

\* C15: every processWebhook run that has finished returned normally.
C15_WebhookNeverRaises ==
  \A p \in Procs :
    (procs[p].kind = "webhook" /\ procs[p].pc = "done")
      => procs[p].result = "ok"

\* C15 happens: a run in which a store write failed after the order had been
\* found has finished.
C15_Witness ==
  \E p \in Procs :
    LET r == procs[p]
    IN  /\ r.kind = "webhook" /\ r.pc = "done" /\ r.failed
        /\ r.subscriptionOrder # NoOrderRow

\* C15 happens for a body without a data object.
C15_WitnessMalformed ==
  \E p \in Procs :
    LET r == procs[p]
    IN  /\ r.kind = "webhook" /\ r.pc = "done" /\ r.failed
        /\ r.data.type = "preapproval" /\ r.data.id = 0

\* C15 happens for a failed gateway fetch.
C15_WitnessGateway ==
  \E p \in Procs :
    LET r == procs[p]
    IN  /\ r.kind = "webhook" /\ r.pc = "done" /\ r.failed
        /\ r.calls = 1 /\ r.body = NoBody

\* C16: a checkSubscriptionOrderStatus run for an order that was approved when
\* it was called never calls the gateway and leaves every order row and every
\* user row as it was; when it has finished without a failure it has returned
\* the approved order.
C16_ApprovedPollNoOp ==
  \A p \in Procs :
    LET r == procs[p]
    IN  (/\ r.kind = "poll" /\ r.orderId \in DOMAIN r.pre.orders
         /\ r.pre.orders[r.orderId].status = "approved")
        => /\ r.calls = 0
           /\ r.pc \in {"pFind", "done"}
           /\ orders = r.pre.orders
           /\ users = r.pre.users
           /\ Finished(r, "poll") => (r.result = "ok" /\ r.ret = "approved")

\* C16 happens: a poll of an approved order whose preapproval the gateway
\* knows has returned.
C16_Witness ==
  \E p \in Procs :
    LET r == procs[p]
    IN  /\ Finished(r, "poll") /\ r.orderId \in DOMAIN r.pre.orders
        /\ r.pre.orders[r.orderId].status = "approved"
        /\ r.pre.orders[r.orderId].mercadopagoPreferenceId \in DOMAIN preapprovals
        /\ r.ret = "approved"

\* C17: a createCheckoutForPlan run for a user or a plan that does not exist,
\* or with the gateway not configured, raises and creates no order; the error
\* is the service-unavailable error when the gateway is not configured, and
\* otherwise it is neither that error nor the payment-gateway error.
C17_CheckoutErrorsDistinct ==
  \A p \in Procs :
    LET r == procs[p]
    IN  (/\ r.kind = "checkout" /\ r.pc = "done"
         /\ (~isConfigured \/ r.userId \notin UserIds \/ r.planId \notin PlanIds))
        => /\ r.result = "raised"
           /\ orders = r.pre.orders
           /\ ~isConfigured => r.error = MsgUnavailable
           /\ isConfigured => r.error \notin {MsgUnavailable, MsgGateway}

\* C18: a createCheckoutForPlan run whose gateway call failed has raised the
\* payment-gateway error; the order it created is in the store, pending and
\* without a provider identifier, and is the only change to the orders; every
\* user row is as it was.
C18_GatewayFailureKeepsOrder ==
  \A p \in Procs :
    LET r == procs[p]
    IN  (r.kind = "checkout" /\ r.pc = "done" /\ r.calls = 1 /\ r.body = NoBody)
        => /\ r.result = "raised" /\ r.error = MsgGateway
           /\ OrderExists(r.orderId)
           /\ orders = Append(r.pre.orders, NewOrder(r.user.id, r.plan))
           /\ orders[r.orderId].status = "pending"
           /\ orders[r.orderId].mercadopagoPreferenceId = 0
           /\ users = r.pre.users

\* C18 happens: a checkout whose gateway call failed has finished, for a user
\* whose usage counters are not zero.
C18_Witness ==
  \E p \in Procs :
    LET r == procs[p]
    IN  /\ r.kind = "checkout" /\ r.pc = "done" /\ r.calls = 1 /\ r.body = NoBody
        /\ Len(orders) = Len(r.pre.orders) + 1
        /\ users[r.user.id].transcriptionsUsedCount = MaxUsage

\* C19: a processWebhook or checkSubscriptionOrderStatus run that has taken an
\* order to approved has applied the grant to the order's user by the time it
\* finishes, so that no state between requests has an approved order whose
\* grant is missing.
C19_ApprovedWithGrant ==
  \A p \in Procs :
    LET r == procs[p]
        o == r.subscriptionOrder.id
    IN  (/\ r.kind \in {"webhook", "poll"} /\ r.pc = "done" /\ o # NoOrder
         /\ r.pre.orders[o].status # "approved"
         /\ orders[o].status = "approved"
         /\ r.user # NoUser)
        => r.effect \in {"grant", "pollGrant"}

\* C20: a checkSubscriptionOrderStatus run whose gateway fetch failed has
\* returned normally the order as findByPk loaded it, and every order row and
\* every user row is as it was.
C20_PollGatewayFailure ==
  \A p \in Procs :
    LET r == procs[p]
        o == r.subscriptionOrder.id
    IN  (r.kind = "poll" /\ r.pc = "done" /\ r.calls = 1 /\ r.body = NoBody)
        => /\ r.result = "ok"
           /\ r.pre.orders[o].status # "approved"
           /\ r.ret = r.pre.orders[o].status
           /\ orders = r.pre.orders
           /\ users = r.pre.users

\* C20 happens: a poll of a pending order whose gateway fetch failed has
\* finished.
C20_Witness ==
  \E p \in Procs :
    LET r == procs[p]
        o == r.subscriptionOrder.id
    IN  /\ r.kind = "poll" /\ r.pc = "done" /\ r.calls = 1 /\ r.body = NoBody
        /\ r.failed /\ r.pre.orders[o].status = "pending"
        /\ r.ret = "pending"

\* C21: a processWebhook run that finds its order goes on to update it
\* whatever the computed status, and the update, when it succeeds, leaves the
\* notification's preapproval id in mercadopagoPaymentId and the record just
\* fetched in mercadopagoPaymentDetails.
C21_SnapshotAlwaysWritten ==
  [][\A p \in Procs :
       LET r == procs[p]
           o == r.subscriptionOrder.id
       IN  /\ (r.pc = "wFind" /\ procs'[p].subscriptionOrder # NoOrderRow)
              => procs'[p].pc = "wUpdateOrder"
           /\ (r.pc = "wUpdateOrder" /\ OrderUpdated(p))
              => /\ orders'[o].status = r.newStatus
                 /\ orders'[o].mercadopagoPaymentId = r.data.id
                 /\ orders'[o].mercadopagoPaymentDetails = r.body]_vars

\* C21 happens: a run whose computed status was the order's status has
\* replaced the provider record stored on the order.
C21_Witness ==
  \E p \in Procs :
    LET r == procs[p]
        o == r.subscriptionOrder.id
    IN  /\ Finished(r, "webhook") /\ o # NoOrder
        /\ r.newStatus = r.pre.orders[o].status
        /\ r.pre.orders[o].mercadopagoPaymentDetails # r.body
        /\ orders[o].mercadopagoPaymentDetails = r.body
        /\ orders[o].mercadopagoPaymentId = r.data.id

\* C22: a processWebhook run that cancels an order of a user who holds, with
\* a planExpiresAt in the future, the plan of a later order that is approved,
\* leaves the user with that plan and a planExpiresAt in the future.
C22_CancelKeepsOtherGrant ==
  \A p \in Procs :
    LET r == procs[p]
        a == r.subscriptionOrder.id
    IN  (Finished(r, "webhook") /\ a # NoOrder /\ r.newStatus = "cancelled")
        => \A b \in DOMAIN r.pre.orders :
             LET u == orders[a].userId
             IN  (/\ b > a /\ r.pre.orders[b].userId = u
                  /\ r.pre.orders[b].status = "approved"
                  /\ r.pre.users[u].planId = r.pre.orders[b].planId
                  /\ r.pre.users[u].planExpiresAt > now)
                 => /\ users[u].planId = r.pre.orders[b].planId
                    /\ users[u].planExpiresAt > now

\* C23: when getUserActivePlan's lookup finds the user, the run returns the
\* user's plan, writing nothing, exactly when the user has a plan and a
\* planExpiresAt after the clock; otherwise it returns null at once when planId
\* is already null, and else goes on to an update that, when it succeeds,
\* leaves planId and planExpiresAt null and returns null.
C23_ActivePlanExact ==
  [][\A p \in Procs :
       LET r   == procs[p]
           r1  == procs'[p]
           u   == r.userId
       IN  /\ (r.pc = "gFind" /\ r1.pc # "gFind" /\ ~r1.failed)
              => LET row    == users[u]
                     active == /\ row.planId \in PlanIds
                               /\ row.planExpiresAt # NoDate
                               /\ row.planExpiresAt > now
                 IN  /\ users' = users
                     /\ active <=> (r1.pc = "done" /\ r1.ret = row.planId)
                     /\ (~active /\ row.planId = NoId)
                          => (r1.pc = "done" /\ r1.ret = "null")
                     /\ (~active /\ row.planId # NoId) => r1.pc = "gUpdate"
           /\ (r.pc = "gUpdate" /\ r1.pc # "gUpdate" /\ ~r1.failed)
              => /\ r1.pc = "done" /\ r1.ret = "null"
                 /\ users'[u].planId = NoId
                 /\ users'[u].planExpiresAt = NoDate]_vars

\* C23 happens: a run for a user whose plan's planExpiresAt was the clock
\* itself has returned null and cleared planId and planExpiresAt.
C23_Witness ==
  \E p \in Procs :
    LET r == procs[p]
        u == r.userId
    IN  /\ Finished(r, "activePlan") /\ r.ret = "null"
        /\ r.pre.users[u].planId \in PlanIds
        /\ r.pre.users[u].planExpiresAt = now
        /\ users[u].planId = NoId /\ users[u].planExpiresAt = NoDate

\* C23 happens: a run has returned the plan of a user whose planExpiresAt is
\* after the clock.
C23_WitnessActive ==
  \E p \in Procs :
    LET r == procs[p]
        u == r.userId
    IN  /\ Finished(r, "activePlan") /\ r.ret \in PlanIds
        /\ users[u].planId = r.ret /\ users[u].planExpiresAt > now

====
